---- MODULE Spec2Model ----
(***************************************************************************)
(* State-machine model of hypothesis/internal/conjecture/datatree.py:      *)
(* TreeNode (a compressed run of draws), DataTree (the owner of the root)  *)
(* and TreeRecordingObserver (the cursor one trial drives through the      *)
(* tree with draw_bits calls and one final conclude_test call).            *)
(*                                                                         *)
(* A TreeNode object is named by the sequence of dict keys that leads to   *)
(* it from tree.root: nodes[<<>>] is tree.root, and the child stored under *)
(* key v in the dict transition of nodes[p] is nodes[Append(p, v)]. A dict *)
(* transition is therefore kept as its key set. Python indices are 0-based *)
(* and sequences here are 1-based: the Python element x[i] is x[i + 1].    *)
(***************************************************************************)
EXTENDS Integers, Sequences, FiniteSets, TLC

(* ------------------------------ bounds --------------------------------- *)

MaxDraws == 2

MaxNodes == 5

MaxWidth == 2

MaxValue == 2

(* how many whole trials are recorded in every order *)
MaxTrials == 3

(* --------------------------- program values ---------------------------- *)

Root == <<>>

OVERRUN == "OVERRUN"

INVALID == "INVALID"

VALID == "VALID"

INTERESTING == "INTERESTING"

Status == {OVERRUN, INVALID, VALID, INTERESTING}

NoOrigin == "none"

Origins == {"bug1", "bug2"}

Pow2(n) == IF n = 0 THEN 1 ELSE IF n = 1 THEN 2 ELSE IF n = 2 THEN 4 ELSE IF n = 3 THEN 8 ELSE 16

Widths == 1..MaxWidth

ValuesOf(n_bits) == {v \in 0..MaxValue : v < Pow2(n_bits)}

(* the outcomes the trials of the model end with: interesting_origin is    *)
(* given with INTERESTING alone                                            *)
Conclusions ==
    {<<s, NoOrigin>> : s \in {OVERRUN, VALID}} \cup {<<INTERESTING, o>> : o \in Origins}

(* node.transition: None, a dict (value -> child) or a Status *)
None == [kind |-> "None", status |-> "", keys |-> {}]

Dict(ks) == [kind |-> "dict", status |-> "", keys |-> ks]

Terminal(s) == [kind |-> "Status", status |-> s, keys |-> {}]

TreeNode == [bits |-> <<>>, values |-> <<>>, transition |-> None]

(* Python s[:n] and s[k:] *)
Take(s, n) == SubSeq(s, 1, IF n < Len(s) THEN n ELSE Len(s))

Drop(s, k) == IF k >= Len(s) THEN <<>> ELSE SubSeq(s, k + 1, Len(s))

IsPrefix(p, q) == Len(p) <= Len(q) /\ SubSeq(q, 1, Len(p)) = p

(* ------------------------------ TreeNode ------------------------------- *)

(* the tree after nodes[p] has been replaced by self and has handed        *)
(* everything below it to a new child stored under key                     *)
PushDown(ns, p, key, self, child) ==
    LET cp == Append(p, key)
        moved == {cp \o Drop(q, Len(p)) : q \in {r \in DOMAIN ns : r # p /\ IsPrefix(p, r)}}
        kept == {q \in DOMAIN ns : ~IsPrefix(p, q)}
    IN  [q \in kept \cup moved \cup {p, cp} |->
            IF q = p THEN self
            ELSE IF q = cp THEN child
            ELSE IF IsPrefix(cp, q) THEN ns[p \o Drop(q, Len(cp))]
            ELSE ns[q]]

split_at_LosesTransition(ns, p, i) ==
    LET self == ns[p]
        child == [bits |-> Drop(self.bits, i + 1),
                  values |-> Drop(self.values, i + 1),
                  transition |-> None]
        key == self.values[i + 1]
    IN  [nodes |-> PushDown(ns, p, key,
                            [bits |-> Take(self.bits, i + 1), values |-> Take(self.values, i),
                             transition |-> Dict({key})], child),
         ok |-> TRUE]

split_at_KeepsValue(ns, p, i) ==
    LET self == ns[p]
        child == [bits |-> Drop(self.bits, i + 1),
                  values |-> Drop(self.values, i + 1),
                  transition |-> self.transition]
        key == self.values[i + 1]
    IN  [nodes |-> PushDown(ns, p, key,
                            [bits |-> Take(self.bits, i + 1), values |-> Take(self.values, i + 1),
                             transition |-> Dict({key})], child),
         ok |-> TRUE]

split_at_LosesRun(ns, p, i) ==
    LET self == ns[p]
        child == [bits |-> <<>>, values |-> <<>>, transition |-> self.transition]
        key == self.values[i + 1]
    IN  [nodes |-> PushDown(ns, p, key,
                            [bits |-> Take(self.bits, i + 1), values |-> Take(self.values, i),
                             transition |-> Dict({key})], child),
         ok |-> TRUE]

(* split_at(self, i), self = ns[p]: the child takes the run after position *)
(* i and the transition; self keeps bits[:i+1], values[:i]. ok is FALSE    *)
(* when one of the two assertions fails: the deletions are done by then,   *)
(* the transition is not yet replaced and the child is never referenced.   *)
split_at(ns, p, i) ==
    LET self == ns[p]
        child == [bits |-> Drop(self.bits, i + 1),
                  values |-> Drop(self.values, i + 1),
                  transition |-> self.transition]
        key == self.values[i + 1]
        vals == Take(self.values, i)
        bts == Take(self.bits, i + 1)
    IN  IF Len(vals) = i /\ Len(bts) = i + 1
        THEN [nodes |-> PushDown(ns, p, key,
                                 [bits |-> bts, values |-> vals,
                                  transition |-> Dict({key})], child),
              ok |-> TRUE]
        ELSE [nodes |-> [ns EXCEPT ![p] = [self EXCEPT !.bits = bts, !.values = vals]],
              ok |-> FALSE]

(* ------------------------------ DataTree ------------------------------- *)

(* DataTree.is_exhausted: the property returns False on every tree *)
is_exhausted(ns) == FALSE

(* DataTree.generate_novel_prefix: returns hbytes(), no draw at all *)
generate_novel_prefix(ns, random) == <<>>

(* ----------------------- TreeRecordingObserver ------------------------- *)

NoError == "none"

Flaky == "Flaky"

AssertionError == "AssertionError"

NameError == "NameError"

Result(ns, c, i, e) == [nodes |-> ns, cur |-> c, idx |-> i, exc |-> e]

InsertChild_ForgetsKey(ns, p, value) ==
    [q \in DOMAIN ns \cup {Append(p, value)} |->
        IF q = Append(p, value) THEN TreeNode ELSE ns[q]]

(* a new TreeNode() stored under key value in the dict of ns[p] *)
InsertChild(ns, p, value) ==
    [q \in DOMAIN ns \cup {Append(p, value)} |->
        IF q = p THEN [ns[p] EXCEPT !.transition.keys = @ \cup {value}]
        ELSE IF q = Append(p, value) THEN TreeNode
        ELSE ns[q]]

DrawValue_StaysAfterSplit(ns, c, i, value) ==
    LET node == ns[c]
    IN  IF ~(i < Len(node.bits))
        THEN Result(ns, c, i + 1, AssertionError)
        ELSE IF i < Len(node.values)
        THEN IF value # node.values[i + 1]
             THEN Result(InsertChild(split_at(ns, c, i).nodes, c, value), c, i, NoError)
             ELSE Result(ns, c, i + 1, NoError)
        ELSE IF node.transition.kind = "None"
        THEN Result([ns EXCEPT ![c].values = Append(@, value)], c, i + 1, NoError)
        ELSE IF node.transition.kind = "dict"
        THEN IF value \in node.transition.keys
             THEN Result(ns, Append(c, value), 0, NoError)
             ELSE Result(InsertChild(ns, c, value), Append(c, value), 0, NoError)
        ELSE IF node.transition.status # OVERRUN
        THEN Result(ns, c, i + 1, Flaky)
        ELSE Result(ns, c, i + 1, AssertionError)

(* draw_bits from its second assertion on: ns is the tree after the width step *)
DrawValue(ns, c, i, value) ==
    LET node == ns[c]
    IN  IF ~(i < Len(node.bits))
        THEN Result(ns, c, i + 1, AssertionError)
        ELSE IF i < Len(node.values)
        THEN IF value # node.values[i + 1]
             THEN LET sp == split_at(ns, c, i)
                  IN  IF ~sp.ok
                      THEN Result(sp.nodes, c, i + 1, AssertionError)
                      ELSE Result(InsertChild(sp.nodes, c, value), Append(c, value), 0, NoError)
             ELSE Result(ns, c, i + 1, NoError)
        ELSE IF node.transition.kind = "None"
        THEN Result([ns EXCEPT ![c].values = Append(@, value)], c, i + 1, NoError)
        ELSE IF node.transition.kind = "dict"
        THEN IF value \in node.transition.keys
             THEN Result(ns, Append(c, value), 0, NoError)
             ELSE Result(InsertChild(ns, c, value), Append(c, value), 0, NoError)
        ELSE IF node.transition.status # OVERRUN
        THEN Result(ns, c, i + 1, Flaky)
        ELSE Result(ns, c, i + 1, AssertionError)

draw_bits_NoWidthCheck(ns, c, i, n_bits, forced, value) ==
    LET node == ns[c]
    IN  IF i < Len(node.bits)
        THEN DrawValue(ns, c, i, value)
        ELSE IF node.transition.kind # "None"
        THEN Result(ns, c, i + 1, AssertionError)
        ELSE DrawValue([ns EXCEPT ![c].bits = Append(@, n_bits)], c, i, value)

draw_bits_AppendsFirst(ns, c, i, n_bits, forced, value) ==
    LET node == ns[c]
    IN  IF i < Len(node.bits)
        THEN IF n_bits # node.bits[i + 1]
             THEN Result(ns, c, i + 1, Flaky)
             ELSE DrawValue(ns, c, i, value)
        ELSE IF node.transition.kind # "None"
        THEN Result([ns EXCEPT ![c].bits = Append(@, n_bits)], c, i + 1, AssertionError)
        ELSE DrawValue([ns EXCEPT ![c].bits = Append(@, n_bits)], c, i, value)

(* draw_bits(self, n_bits, forced, value) of the cursor at node c, index i *)
draw_bits(ns, c, i, n_bits, forced, value) ==
    LET node == ns[c]
    IN  IF i < Len(node.bits)
        THEN IF n_bits # node.bits[i + 1]
             THEN Result(ns, c, i + 1, Flaky)
             ELSE DrawValue(ns, c, i, value)
        ELSE IF node.transition.kind # "None"
        THEN Result(ns, c, i + 1, AssertionError)
        ELSE DrawValue([ns EXCEPT ![c].bits = Append(@, n_bits)], c, i, value)

conclude_test_Overwrites(ns, c, i, status, interesting_origin) ==
    LET node == ns[c]
    IN  IF status = OVERRUN
        THEN Result(ns, c, i, NoError)
        ELSE IF i < Len(node.values) \/ node.transition.kind = "dict"
        THEN Result(ns, c, i, Flaky)
        ELSE IF node.transition.kind # "None"
        THEN Result(ns, c, i, NameError)
        ELSE Result([ns EXCEPT ![c].transition = Terminal(status)], c, i, NoError)

conclude_test_NoEarlyCheck(ns, c, i, status, interesting_origin) ==
    LET node == ns[c]
    IN  IF status = OVERRUN
        THEN Result(ns, c, i, NoError)
        ELSE IF node.transition.kind = "dict"
        THEN Result(ns, c, i, Flaky)
        ELSE IF node.transition.kind # "None"
        THEN IF node.transition.status # status
             THEN Result(ns, c, i, NameError)
             ELSE Result(ns, c, i, NoError)
        ELSE Result([ns EXCEPT ![c].transition = Terminal(status)], c, i, NoError)

conclude_test_RecordsOverrun(ns, c, i, status, interesting_origin) ==
    LET node == ns[c]
    IN  IF i < Len(node.values) \/ node.transition.kind = "dict"
        THEN Result(ns, c, i, IF status = OVERRUN THEN NoError ELSE Flaky)
        ELSE IF node.transition.kind # "None"
        THEN IF node.transition.status # status /\ status # OVERRUN
             THEN Result(ns, c, i, NameError)
             ELSE Result(ns, c, i, NoError)
        ELSE Result([ns EXCEPT ![c].transition = Terminal(status)], c, i, NoError)

conclude_test_OffByOne(ns, c, i, status, interesting_origin) ==
    LET node == ns[c]
    IN  IF status = OVERRUN
        THEN Result(ns, c, i, NoError)
        ELSE IF i <= Len(node.values) \/ node.transition.kind = "dict"
        THEN Result(ns, c, i, Flaky)
        ELSE IF node.transition.kind # "None"
        THEN IF node.transition.status # status
             THEN Result(ns, c, i, NameError)
             ELSE Result(ns, c, i, NoError)
        ELSE Result([ns EXCEPT ![c].transition = Terminal(status)], c, i, NoError)

conclude_test_Reassigns(ns, c, i, status, interesting_origin) ==
    LET node == ns[c]
    IN  IF status = OVERRUN
        THEN Result(ns, c, i, NoError)
        ELSE IF i < Len(node.values) \/ node.transition.kind = "dict"
        THEN Result(ns, c, i, Flaky)
        ELSE Result([ns EXCEPT ![c].transition = Terminal(status)], c, i, NoError)

conclude_test_SetsThenChecks(ns, c, i, status, interesting_origin) ==
    LET node == ns[c]
    IN  IF status = OVERRUN
        THEN Result(ns, c, i, NoError)
        ELSE IF i < Len(node.values) \/ node.transition.kind = "dict"
        THEN Result(ns, c, i, Flaky)
        ELSE IF node.transition.kind # "None" /\ node.transition.status # status
        THEN Result([ns EXCEPT ![c].transition = Terminal(status)], c, i, NameError)
        ELSE Result([ns EXCEPT ![c].transition = Terminal(status)], c, i, NoError)

(* conclude_test(self, status, interesting_origin): the status comparison  *)
(* that fails builds its message from the undefined name existing, which   *)
(* raises NameError before Flaky is constructed                            *)
conclude_test(ns, c, i, status, interesting_origin) ==
    LET node == ns[c]
    IN  IF status = OVERRUN
        THEN Result(ns, c, i, NoError)
        ELSE IF i < Len(node.values) \/ node.transition.kind = "dict"
        THEN Result(ns, c, i, Flaky)
        ELSE IF node.transition.kind # "None"
        THEN IF node.transition.status # status
             THEN Result(ns, c, i, NameError)
             ELSE Result(ns, c, i, NoError)
        ELSE Result([ns EXCEPT ![c].transition = Terminal(status)], c, i, NoError)

(* ------------------------------- state --------------------------------- *)

(* the number of cursors from which the node bound of the model is slack *)
TrialCap == MaxNodes \div 2

VARIABLES
    nodes,      \* the TreeNode objects reachable from DataTree.root
    pc,         \* "idle": no cursor; "running": one cursor between new_observer and its end
    cur,        \* TreeRecordingObserver.__current_node
    idx,        \* TreeRecordingObserver.__index_in_current_node
    trial,      \* history: the draws <<n_bits, value>> fed to the current cursor so far
    call,       \* history: the last call made, with the tree and cursor it was made on
    exc,        \* what the last call raised
    start,      \* history: the tree as the current cursor found it at new_observer
    div,        \* history: where the current trial left a recorded run by value
    mem,        \* history: one earlier trial that ended without any error
    made,       \* history: how many nodes the draws of the current trial had to create
    ntrials,    \* history: how many cursors were created so far, counted up to TrialCap
    two,        \* two cursors alive on the tree at once, and what their calls did
    plan        \* the set of whole trials recorded so far on a fresh tree

vars == <<nodes, pc, cur, idx, trial, call, exc, start, div, mem, made, ntrials, two, plan>>

NoCall == [op |-> "none", n_bits |-> 0, value |-> 0, status |-> "", origin |-> "",
           nodes |-> <<>>, cur |-> <<>>, idx |-> 0]

NoTrial == [set |-> FALSE, old |-> FALSE, draws |-> <<>>, status |-> "", origin |-> ""]

NoDiv == [set |-> FALSE, nodes |-> <<>>, p |-> <<>>, k |-> 0, at |-> 0]

FreshTree == [q \in {Root} |-> TreeNode]

(* one cursor of the pair: pc is "none" before it is created, "running"    *)
(* between its creation and its end, "done" after conclude_test or a raise; *)
(* stale: the other cursor split this cursor's node below its index        *)
NoCursor == [pc |-> "none", cur |-> Root, idx |-> 0, draws |-> <<>>, status |-> "",
             exc |-> NoError, stale |-> FALSE]

NoTwo == [k \in {1, 2} |-> NoCursor]

(* DataTree.__init__: the tree holds one empty root and no cursor exists *)
Init ==
    /\ nodes = FreshTree
    /\ pc = "idle"
    /\ cur = Root
    /\ idx = 0
    /\ trial = <<>>
    /\ call = NoCall
    /\ exc = NoError
    /\ start = FreshTree
    /\ div = NoDiv
    /\ mem = NoTrial
    /\ made = 0
    /\ ntrials = 0
    /\ two = NoTwo
    /\ plan = {}

(* DataTree.new_observer / TreeRecordingObserver.__init__ *)
NewObserver ==
    /\ pc = "idle"
    /\ pc' = "running"
    /\ cur' = Root
    /\ idx' = 0
    /\ trial' = <<>>
    /\ call' = [NoCall EXCEPT !.op = "new_observer", !.nodes = nodes]
    /\ exc' = NoError
    /\ start' = nodes
    /\ div' = NoDiv
    /\ mem' = IF mem.set THEN [mem EXCEPT !.old = TRUE] ELSE mem
    /\ made' = 0
    /\ ntrials' = IF ntrials < TrialCap THEN ntrials + 1 ELSE ntrials
    /\ UNCHANGED <<nodes, two, plan>>

(* the draw follows a recorded run with the recorded width and leaves it by value *)
Diverges(ns, c, i, n_bits, value) ==
    /\ i < Len(ns[c].values)
    /\ n_bits = ns[c].bits[i + 1]
    /\ value # ns[c].values[i + 1]

(* the draw is made at the dict of a node and its value is not yet a key *)
NewKey(ns, c, i, n_bits, value) ==
    /\ i = Len(ns[c].values)
    /\ ns[c].transition.kind = "dict"
    /\ n_bits = ns[c].bits[i + 1]
    /\ value \notin ns[c].transition.keys

(* one draw_bits call of the running trial; an exception ends the trial *)
DrawBits(n_bits, forced, value) ==
    /\ pc = "running"
    /\ Len(trial) < MaxDraws
    /\ LET r == draw_bits(nodes, cur, idx, n_bits, forced, value)
       IN  /\ Cardinality(DOMAIN r.nodes) <= MaxNodes
           /\ nodes' = r.nodes
           /\ cur' = r.cur
           /\ idx' = r.idx
           /\ exc' = r.exc
           /\ pc' = IF r.exc = NoError THEN "running" ELSE "idle"
    /\ trial' = Append(trial, <<n_bits, value>>)
    /\ call' = [NoCall EXCEPT !.op = "draw_bits", !.n_bits = n_bits, !.value = value,
                              !.nodes = nodes, !.cur = cur, !.idx = idx]
    /\ div' = IF Diverges(nodes, cur, idx, n_bits, value)
              THEN [set |-> TRUE, nodes |-> nodes, p |-> cur, k |-> idx,
                    at |-> Len(trial) + 1]
              ELSE div
    /\ made' = IF Diverges(nodes, cur, idx, n_bits, value) THEN made + 2
               ELSE IF NewKey(nodes, cur, idx, n_bits, value) THEN made + 1
               ELSE made
    /\ UNCHANGED <<start, mem, ntrials, two, plan>>

(* the conclude_test call that ends the running trial; remember: keep this *)
(* trial as the earlier trial that later states are compared with          *)
ConcludeTest(status, interesting_origin, remember) ==
    /\ pc = "running"
    /\ LET r == conclude_test(nodes, cur, idx, status, interesting_origin)
       IN  /\ nodes' = r.nodes
           /\ cur' = r.cur
           /\ idx' = r.idx
           /\ exc' = r.exc
           /\ mem' = IF remember /\ r.exc = NoError
                     THEN [set |-> TRUE, old |-> FALSE, draws |-> trial,
                           status |-> status, origin |-> interesting_origin]
                     ELSE mem
    /\ pc' = "idle"
    /\ call' = [NoCall EXCEPT !.op = "conclude_test", !.status = status,
                              !.origin = interesting_origin,
                              !.nodes = nodes, !.cur = cur, !.idx = idx]
    /\ UNCHANGED <<trial, start, div, made, ntrials, two, plan>>

Next ==
    \/ NewObserver
    \/ \E n_bits \in Widths : \E forced \in BOOLEAN : \E value \in ValuesOf(n_bits) :
          DrawBits(n_bits, forced, value)
    \/ \E c \in Conclusions : \E remember \in (IF mem.set THEN {FALSE} ELSE BOOLEAN) :
          ConcludeTest(c[1], c[2], remember)

Spec == Init /\ [][Next]_vars

TypeOK ==
    /\ pc \in {"idle", "running"}
    /\ cur \in DOMAIN nodes
    /\ idx \in 0..(MaxDraws + 1)
    /\ exc \in {NoError, Flaky, AssertionError, NameError}
    /\ Cardinality(DOMAIN nodes) <= MaxNodes
    /\ made \in 0..MaxNodes
    /\ ntrials \in 0..TrialCap

(* ============================== claims ================================= *)

(* the node the last call was made on, as it was before the call *)
CallNode == call.nodes[call.cur]

WidthsOf(draws) == [j \in 1..Len(draws) |-> draws[j][1]]

ValsOf(draws) == [j \in 1..Len(draws) |-> draws[j][2]]

(* the current trial comes after the remembered one *)
Later == mem.set /\ mem.old

(* C1: replaying the draws and the status of a trial recorded without      *)
(* error raises nothing, creates no node and changes no node: after every  *)
(* call of the replay the tree is the one new_observer found.              *)
C1_ReplayIsNoOp ==
    Later =>
        /\ (call.op = "draw_bits" /\ IsPrefix(trial, mem.draws))
              => (exc = NoError /\ nodes = call.nodes /\ nodes = start)
        /\ (call.op = "conclude_test" /\ trial = mem.draws /\ call.status = mem.status)
              => (exc = NoError /\ nodes = call.nodes /\ nodes = start)

C1_Witness ==
    /\ Later
    /\ call.op = "conclude_test"
    /\ trial = mem.draws
    /\ call.status = mem.status
    /\ mem.status # OVERRUN
    /\ Len(trial) = 2
    /\ cur # Root
    /\ exc = NoError

(* C2: concluding the draws of an earlier trial that ended with a          *)
(* non-Overrun status s1 with another non-Overrun status s2 raises Flaky.  *)
C2_StatusMismatchIsFlaky ==
    (/\ Later
     /\ mem.status # OVERRUN
     /\ call.op = "conclude_test"
     /\ trial = mem.draws
     /\ call.status \notin {OVERRUN, mem.status})
        => exc = Flaky

(* C3: drawing once more where an earlier trial concluded with a           *)
(* non-Overrun status raises Flaky, whatever the width and value drawn.    *)
C3_DrawPastTerminalIsFlaky ==
    (/\ Later
     /\ mem.status # OVERRUN
     /\ call.op = "draw_bits"
     /\ Len(trial) = Len(mem.draws) + 1
     /\ IsPrefix(mem.draws, trial))
        => exc = Flaky

(* C4: a non-Overrun conclude_test raises Flaky whenever recorded values   *)
(* lie ahead of the cursor or the node's transition is a dict, and raises  *)
(* nothing at any other cursor position of a node whose transition is None.*)
C4_ConcludeEarlyIsFlaky ==
    (call.op = "conclude_test" /\ call.status # OVERRUN) =>
        /\ (call.idx < Len(CallNode.values) \/ CallNode.transition.kind = "dict")
              => (exc = Flaky /\ nodes = call.nodes)
        /\ (CallNode.transition.kind = "None" /\ ~(call.idx < Len(CallNode.values)))
              => exc = NoError

C4_Witness ==
    /\ call.op = "conclude_test"
    /\ call.status # OVERRUN
    /\ call.idx < Len(CallNode.values)
    /\ CallNode.transition.kind = "Status"
    /\ call.idx > 0
    /\ exc = Flaky

(* C5: at a position whose width is recorded, the discriminator position   *)
(* of a dict node included, draw_bits with another width raises Flaky      *)
(* whatever the value, and draw_bits with the recorded width raises        *)
(* nothing.                                                                *)
C5_WidthMismatchIsFlaky ==
    (call.op = "draw_bits" /\ call.idx < Len(CallNode.bits)) =>
        /\ call.n_bits # CallNode.bits[call.idx + 1] => (exc = Flaky /\ nodes = call.nodes)
        /\ call.n_bits = CallNode.bits[call.idx + 1] => exc = NoError

C5_Witness ==
    /\ call.op = "draw_bits"
    /\ CallNode.transition.kind = "dict"
    /\ call.idx = Len(CallNode.values)
    /\ call.n_bits # CallNode.bits[call.idx + 1]
    /\ call.value \in CallNode.transition.keys
    /\ exc = Flaky

(* C6: conclude_test(OVERRUN) raises nothing and changes no node at any    *)
(* cursor position, and no node's transition is ever OVERRUN.              *)
C6_OverrunNeverMutates ==
    /\ (call.op = "conclude_test" /\ call.status = OVERRUN)
          => (exc = NoError /\ nodes = call.nodes)
    /\ \A p \in DOMAIN nodes : nodes[p].transition.status # OVERRUN

C6_Witness ==
    /\ call.op = "conclude_test"
    /\ call.status = OVERRUN
    /\ CallNode.transition.kind = "dict"
    /\ call.idx < Len(CallNode.values)
    /\ exc = NoError

(* the tree a trial that made draws and concluded OVERRUN leaves on a      *)
(* fresh tree, by the calls of the trial                                   *)
RECURSIVE Feed(_, _)
Feed(r, draws) ==
    IF draws = <<>> \/ r.exc # NoError
    THEN r
    ELSE Feed(draw_bits(r.nodes, r.cur, r.idx, draws[1][1], FALSE, draws[1][2]), Tail(draws))

OverrunOnFresh(draws) ==
    LET fed == Feed(Result(FreshTree, Root, 0, NoError), draws)
    IN  conclude_test(fed.nodes, fed.cur, fed.idx, OVERRUN, NoOrigin)

(* the draws recorded in the root of the tree the current trial started on *)
StartDraws == [j \in 1..Len(start[Root].values) |->
                 <<start[Root].bits[j], start[Root].values[j]>>]

(* the current trial started on the tree an Overrun trial left on a fresh tree *)
AfterOverrun ==
    /\ DOMAIN start = {Root}
    /\ Len(start[Root].bits) = Len(start[Root].values)
    /\ OverrunOnFresh(StartDraws).exc = NoError
    /\ OverrunOnFresh(StartDraws).nodes = start

(* the first position where t and d differ, Len + 1 of the shorter if none *)
FirstDiff(t, d) ==
    LET m == IF Len(t) < Len(d) THEN Len(t) ELSE Len(d)
        diffs == {j \in 1..m : t[j] # d[j]}
    IN  IF diffs = {} THEN m + 1 ELSE CHOOSE j \in diffs : \A h \in diffs : j <= h

(* t agrees with d on their shared positions, or leaves d by value *)
SharesPrefix(t, d) ==
    LET j == FirstDiff(t, d)
    IN  (j <= Len(t) /\ j <= Len(d)) => t[j][1] = d[j][1]

(* C7 as stated: after an Overrun trial on a fresh tree, a trial that      *)
(* shares a prefix with it and concludes with a non-Overrun status raises  *)
(* nothing, wherever it stops.                                             *)
C7_AfterOverrunAnyStop ==
    (/\ AfterOverrun
     /\ SharesPrefix(trial, StartDraws)
     /\ call.op \in {"draw_bits", "conclude_test"}
     /\ call.op = "conclude_test" => call.status # OVERRUN)
        => exc = NoError

(* the trial stopped at a shared position before the end of the draws the *)
(* tree it started on holds                                                *)
StopsEarly == Len(trial) < Len(StartDraws) /\ IsPrefix(trial, StartDraws)

(* C7 amended: the same, for a trial that does not stop before the end of  *)
(* the Overrun trial's draws: it replays them all, goes on past them, or   *)
(* leaves them by value. A non-Overrun conclusion before their end raises  *)
(* Flaky.                                                                  *)
C7_AfterOverrunNoEarlyStop ==
    (/\ AfterOverrun
     /\ SharesPrefix(trial, StartDraws)
     /\ call.op \in {"draw_bits", "conclude_test"}
     /\ call.op = "conclude_test" => call.status # OVERRUN)
        => exc = (IF call.op = "conclude_test" /\ StopsEarly THEN Flaky ELSE NoError)

C7_Witness ==
    /\ AfterOverrun
    /\ Len(StartDraws) = 2
    /\ trial = StartDraws
    /\ call.op = "conclude_test"
    /\ call.status # OVERRUN
    /\ exc = NoError
    /\ nodes # start

(* C8: concluding the draws of an earlier INTERESTING trial as INTERESTING *)
(* with another interesting_origin raises Flaky.                           *)
C8_OriginMismatchIsFlaky ==
    (/\ Later
     /\ mem.status = INTERESTING
     /\ call.op = "conclude_test"
     /\ trial = mem.draws
     /\ call.status = INTERESTING
     /\ call.origin # mem.origin)
        => exc = Flaky

(* where the nodes of the tree before the divergence are after the split *)
Moved(q) ==
    IF q # div.p /\ IsPrefix(div.p, q)
    THEN Append(div.p, div.nodes[div.p].values[div.k + 1]) \o Drop(q, Len(div.p))
    ELSE q

(* C9: once a trial has left the recorded run of a node at position k by   *)
(* value, that node keeps bits[0..k] and values[0..k-1] and its transition *)
(* is a dict with the old and the new value as its two keys; the old       *)
(* value's child holds the run after k and the node's previous transition; *)
(* the new value's child holds the trial's later draws; every other node   *)
(* is as it was and no further node exists.                                *)
C9_ExactlyOneSplit ==
    div.set =>
        LET p == div.p
            k == div.k
            was == div.nodes[p]
            oldv == was.values[k + 1]
            newv == trial[div.at][2]
            rest == Drop(trial, div.at)
            oldc == Append(p, oldv)
            newc == Append(p, newv)
        IN  /\ exc = NoError
            /\ nodes[p] = [bits |-> Take(was.bits, k + 1), values |-> Take(was.values, k),
                           transition |-> Dict({oldv, newv})]
            /\ oldv # newv
            /\ nodes[oldc] = [bits |-> Drop(was.bits, k + 1),
                              values |-> Drop(was.values, k + 1),
                              transition |-> was.transition]
            /\ nodes[newc].bits = WidthsOf(rest)
            /\ nodes[newc].values = ValsOf(rest)
            /\ nodes[newc].transition =
                  IF call.op = "conclude_test" /\ call.status # OVERRUN
                  THEN Terminal(call.status) ELSE None
            /\ DOMAIN nodes = {Moved(q) : q \in DOMAIN div.nodes} \cup {oldc, newc}
            /\ \A q \in DOMAIN div.nodes \ {p} : nodes[Moved(q)] = div.nodes[q]

C9_Witness ==
    /\ div.set
    /\ div.k = 0
    /\ div.nodes[div.p].transition.kind = "dict"
    /\ Len(trial) = 2
    /\ div.at = 1
    /\ call.op = "conclude_test"
    /\ call.status = VALID

(* exhaustion as the documentation of is_exhausted defines it *)
RECURSIVE Exhausted(_)
Exhausted(p) ==
    LET t == nodes[p].transition
    IN  \/ t.kind = "Status"
        \/ /\ t.kind = "dict"
           /\ t.keys = 0..(Pow2(nodes[p].bits[Len(nodes[p].values) + 1]) - 1)
           /\ \A v \in t.keys : Exhausted(Append(p, v))

(* C10: is_exhausted is true iff every node is Terminal or a dict node     *)
(* whose keys cover all 2^width values and whose children are exhausted.   *)
C10_IsExhausted == is_exhausted(nodes) = Exhausted(Root)

(* the draws generate_novel_prefix hands back: hbytes() holds no draw *)
NovelPrefix == generate_novel_prefix(nodes, "random")

(* C11: on a tree that is not exhausted and holds a trial recorded with    *)
(* at least one draw and a status other than OVERRUN, generate_novel_prefix *)
(* returns a sequence that is not a prefix of that trial's draws.          *)
C11_NovelPrefixIsNovel ==
    (/\ mem.set
     /\ mem.status # OVERRUN
     /\ mem.draws # <<>>
     /\ ~Exhausted(Root))
        => ~IsPrefix(NovelPrefix, mem.draws)

(* C12 as stated: every node has len(values) <= len(bits) <= len(values)+1 *)
(* and every node with a dict or a Status transition has equal lengths.    *)
C12_BranchHasEqualLengths ==
    \A p \in DOMAIN nodes :
        /\ Len(nodes[p].values) <= Len(nodes[p].bits)
        /\ Len(nodes[p].bits) <= Len(nodes[p].values) + 1
        /\ nodes[p].transition.kind \in {"dict", "Status"}
              => Len(nodes[p].values) = Len(nodes[p].bits)

(* C12: every node has len(values) <= len(bits) <= len(values) + 1, every  *)
(* node with a Status transition has len(values) = len(bits) and every     *)
(* node with a dict transition has len(bits) = len(values) + 1.            *)
C12_LengthsByTransition ==
    \A p \in DOMAIN nodes :
        /\ Len(nodes[p].values) <= Len(nodes[p].bits)
        /\ Len(nodes[p].bits) <= Len(nodes[p].values) + 1
        /\ nodes[p].transition.kind = "Status" => Len(nodes[p].values) = Len(nodes[p].bits)
        /\ nodes[p].transition.kind = "dict" => Len(nodes[p].bits) = Len(nodes[p].values) + 1

C12_Witness ==
    \E p, q \in DOMAIN nodes :
        /\ nodes[p].transition.kind = "dict"
        /\ Len(nodes[p].bits) = 2
        /\ nodes[q].transition.kind = "Status"
        /\ Len(nodes[q].bits) = 0

(* the last call was a draw_bits that split the node it was made on *)
SplitByCall ==
    /\ call.op = "draw_bits"
    /\ exc = NoError
    /\ call.idx < Len(CallNode.values)
    /\ call.value # CallNode.values[call.idx + 1]

(* where the TreeNode object that was at path q before the last call is now *)
Now(q) ==
    IF SplitByCall /\ q # call.cur /\ IsPrefix(call.cur, q)
    THEN Append(call.cur, CallNode.values[call.idx + 1]) \o Drop(q, Len(call.cur))
    ELSE q

(* the nodes the last call created *)
Created == DOMAIN nodes \ {Now(q) : q \in DOMAIN call.nodes}

(* C13 as stated: a call creates only Live nodes, leaves every Status      *)
(* transition as it is and every dict transition a dict.                   *)
C13_TerminalIsAbsorbing ==
    call.op \in {"draw_bits", "conclude_test"} =>
        /\ \A q \in Created : nodes[q].transition = None
        /\ \A q \in DOMAIN call.nodes :
              LET a == call.nodes[q].transition
                  b == nodes[Now(q)].transition
              IN  /\ a.kind = "Status" => b = a
                  /\ a.kind = "dict" => b.kind = "dict"

(* C13: a call creates only Live nodes, except that the child split_at     *)
(* creates takes the transition of the node it splits; a dict transition   *)
(* stays a dict; a Status transition stays the same Status unless the call *)
(* splits the node, which then holds a dict and whose new child holds that *)
(* Status; a Live node becomes a dict or a Status or stays Live.           *)
C13_TransitionsOfANode ==
    call.op \in {"draw_bits", "conclude_test"} =>
        LET child == Append(call.cur, CallNode.values[call.idx + 1])
        IN  /\ \A q \in Created :
                  \/ nodes[q].transition = None
                  \/ SplitByCall /\ q = child /\ nodes[q].transition = CallNode.transition
            /\ \A q \in DOMAIN call.nodes :
                  LET a == call.nodes[q].transition
                      b == nodes[Now(q)].transition
                  IN  /\ a.kind = "dict" => b.kind = "dict"
                      /\ a.kind = "Status" =>
                            \/ b = a
                            \/ /\ SplitByCall
                               /\ q = call.cur
                               /\ b.kind = "dict"
                               /\ nodes[child].transition = a

C13_Witness ==
    /\ SplitByCall
    /\ CallNode.transition.kind = "Status"
    /\ call.cur # Root
    /\ nodes[call.cur].transition.kind = "dict"

(* C14: every split_at(i) that draw_bits calls has i < len(values), passes *)
(* both assertions, creates one child with bits[i+1:], values[i+1:] and    *)
(* the node's transition, and leaves the node with bits[:i+1], values[:i]  *)
(* and a dict whose one key values[i] leads to that child.                 *)
C14_SplitAt ==
    (/\ call.op = "draw_bits"
     /\ call.idx < Len(CallNode.bits)
     /\ call.n_bits = CallNode.bits[call.idx + 1]
     /\ call.idx < Len(CallNode.values)
     /\ call.value # CallNode.values[call.idx + 1])
        => LET i == call.idx
               B == CallNode.bits
               V == CallNode.values
               T == CallNode.transition
               sp == split_at(call.nodes, call.cur, i)
               child == Append(call.cur, V[i + 1])
           IN  /\ sp.ok
               /\ exc = NoError
               /\ DOMAIN sp.nodes = {Now(q) : q \in DOMAIN call.nodes} \cup {child}
               /\ sp.nodes[child] = [bits |-> SubSeq(B, i + 2, Len(B)),
                                     values |-> SubSeq(V, i + 2, Len(V)),
                                     transition |-> T]
               /\ sp.nodes[call.cur] = [bits |-> SubSeq(B, 1, i + 1),
                                        values |-> SubSeq(V, 1, i),
                                        transition |-> Dict({V[i + 1]})]
               /\ \A q \in DOMAIN call.nodes \ {call.cur} : sp.nodes[Now(q)] = call.nodes[q]
               /\ nodes[child] = sp.nodes[child]
               /\ nodes[call.cur].bits = sp.nodes[call.cur].bits
               /\ nodes[call.cur].values = sp.nodes[call.cur].values

C14_Witness ==
    /\ SplitByCall
    /\ call.idx = 0
    /\ Len(CallNode.values) = 2
    /\ CallNode.transition.kind = "Status"
    /\ nodes[Append(call.cur, CallNode.values[1])].transition = CallNode.transition

(* where the draws lead from index i of node p: the node and index reached *)
RECURSIVE Walk(_, _, _)
Walk(p, i, draws) ==
    IF draws = <<>>
    THEN [ok |-> TRUE, p |-> p, i |-> i]
    ELSE LET node == nodes[p]
             d == Head(draws)
         IN  IF i < Len(node.values)
             THEN IF node.bits[i + 1] = d[1] /\ node.values[i + 1] = d[2]
                  THEN Walk(p, i + 1, Tail(draws))
                  ELSE [ok |-> FALSE, p |-> p, i |-> i]
             ELSE IF /\ node.transition.kind = "dict"
                     /\ i < Len(node.bits)
                     /\ node.bits[i + 1] = d[1]
                     /\ d[2] \in node.transition.keys
             THEN Walk(Append(p, d[2]), 0, Tail(draws))
             ELSE [ok |-> FALSE, p |-> p, i |-> i]

(* C15: the draws of an earlier trial that ended without error with a      *)
(* status other than OVERRUN lead from the root to the end of a node whose *)
(* transition is that status, whatever was recorded since.                 *)
C15_HistoryIsKept ==
    (mem.set /\ mem.status # OVERRUN)
        => LET w == Walk(Root, 0, mem.draws)
           IN  /\ w.ok
               /\ w.i = Len(nodes[w.p].values)
               /\ nodes[w.p].transition = Terminal(mem.status)

C15_Witness ==
    /\ Later
    /\ mem.status = INTERESTING
    /\ Len(mem.draws) = 2
    /\ Walk(Root, 0, mem.draws).p = <<mem.draws[1][2], mem.draws[2][2]>>
    /\ exc # NoError

(* C18: a call that raises leaves the tree and the cursor's node as they   *)
(* were before the call; only the cursor's index may be one higher.        *)
C18_FailureAtomicity ==
    exc # NoError =>
        /\ call.op \in {"draw_bits", "conclude_test"}
        /\ nodes = call.nodes
        /\ cur = call.cur
        /\ idx \in {call.idx, call.idx + 1}

C18_Witness ==
    /\ exc = NameError
    /\ Cardinality(DOMAIN nodes) >= 3
    /\ cur # Root

(* C19: Live and Status nodes have len(bits) = len(values); a dict node    *)
(* has len(bits) = len(values) + 1 and at least two keys; every node but   *)
(* the root is stored under a key of the dict of the node above it and     *)
(* every key of a dict has its node; after a call that returned, the       *)
(* cursor's index is at most len(bits) of its node.                        *)
C19_Structure ==
    /\ \A p \in DOMAIN nodes :
          LET n == nodes[p]
          IN  /\ n.transition.kind \in {"None", "Status"} => Len(n.bits) = Len(n.values)
              /\ n.transition.kind = "dict" =>
                    /\ Len(n.bits) = Len(n.values) + 1
                    /\ Cardinality(n.transition.keys) >= 2
                    /\ \A k \in n.transition.keys : Append(p, k) \in DOMAIN nodes
              /\ p # Root =>
                    /\ Take(p, Len(p) - 1) \in DOMAIN nodes
                    /\ nodes[Take(p, Len(p) - 1)].transition.kind = "dict"
                    /\ p[Len(p)] \in nodes[Take(p, Len(p) - 1)].transition.keys
    /\ exc = NoError => (cur \in DOMAIN nodes /\ idx <= Len(nodes[cur].bits))

C19_Witness ==
    /\ \E p \in DOMAIN nodes : nodes[p].transition.kind = "Status"
    /\ Cardinality(nodes[Root].transition.keys) = 3
    /\ pc = "running"
    /\ idx = 1
    /\ exc = NoError

(* where the TreeNode object that was at path q when the cursor was        *)
(* created is now                                                          *)
SinceStart(q) == IF div.set THEN Moved(q) ELSE q

(* C16: the draws of one trial create two nodes when the trial leaves a    *)
(* recorded run by value, one when it draws a new value at a dict, none    *)
(* otherwise, and never more than two in all; once a node is created the   *)
(* cursor stays at the end of a new Live node; before TrialCap cursors     *)
(* were created the tree has at most 1 + 2 * ntrials nodes.                *)
C16_NodesPerTrial ==
    /\ Cardinality(DOMAIN nodes) = Cardinality(DOMAIN start) + made
    /\ made <= 2
    /\ made = 2 <=> div.set
    /\ (made > 0 /\ pc = "running") =>
          /\ cur \notin {SinceStart(q) : q \in DOMAIN start}
          /\ nodes[cur].transition = None
          /\ idx = Len(nodes[cur].bits)
          /\ idx = Len(nodes[cur].values)
    /\ ntrials < TrialCap => Cardinality(DOMAIN nodes) <= 1 + 2 * ntrials

C16_Witness ==
    /\ made = 1
    /\ Len(trial) = 2
    /\ pc = "running"
    /\ idx = 1
    /\ Cardinality(DOMAIN nodes) = 4

(* ---------------------- two cursors on one tree ------------------------ *)

Other(k) == 3 - k

(* one trial recorded by the calls of a single cursor, before the pair *)
Seed ==
    /\ two[1].pc = "none"
    /\ \/ ntrials = 0 /\ NewObserver
       \/ \E n_bits \in Widths : \E forced \in BOOLEAN : \E value \in ValuesOf(n_bits) :
             DrawBits(n_bits, forced, value)
       \/ \E c \in Conclusions : ConcludeTest(c[1], c[2], FALSE)

(* DataTree.new_observer called twice: two cursors at the root, index 0 *)
NewObservers ==
    /\ pc = "idle"
    /\ two[1].pc = "none"
    /\ two' = [k \in {1, 2} |-> [NoCursor EXCEPT !.pc = "running"]]
    /\ start' = nodes
    /\ UNCHANGED <<nodes, pc, cur, idx, trial, call, exc, div, mem, made, ntrials, plan>>

(* draw_bits of cursor k. The other cursor holds a reference to a TreeNode *)
(* object: when the call splits a node above that object, the object hangs *)
(* under the new child; when it splits that object itself, the object      *)
(* stays where it is, truncated in place.                                  *)
DrawBitsTwo(k, n_bits, forced, value) ==
    /\ two[k].pc = "running"
    /\ Len(two[k].draws) < MaxDraws
    /\ LET me == two[k]
           o == Other(k)
           r == draw_bits(nodes, me.cur, me.idx, n_bits, forced, value)
           splits == r.exc = NoError /\ Diverges(nodes, me.cur, me.idx, n_bits, value)
           child == Append(me.cur, nodes[me.cur].values[me.idx + 1])
       IN  /\ Cardinality(DOMAIN r.nodes) <= MaxNodes
           /\ nodes' = r.nodes
           /\ two' = [j \in {1, 2} |->
                        IF j = k
                        THEN [me EXCEPT !.cur = r.cur, !.idx = r.idx, !.exc = r.exc,
                                        !.draws = Append(@, <<n_bits, value>>),
                                        !.pc = IF r.exc = NoError THEN "running" ELSE "done"]
                        ELSE [two[o] EXCEPT
                                !.cur = IF splits /\ @ # me.cur /\ IsPrefix(me.cur, @)
                                        THEN child \o Drop(@, Len(me.cur))
                                        ELSE @,
                                !.stale = \/ @
                                          \/ /\ splits
                                             /\ two[o].pc = "running"
                                             /\ two[o].cur = me.cur
                                             /\ me.idx < two[o].idx]]
    /\ UNCHANGED <<pc, cur, idx, trial, call, exc, start, div, mem, made, ntrials, plan>>

(* conclude_test of cursor k *)
ConcludeTestTwo(k, status, interesting_origin) ==
    /\ two[k].pc = "running"
    /\ LET me == two[k]
           r == conclude_test(nodes, me.cur, me.idx, status, interesting_origin)
       IN  /\ nodes' = r.nodes
           /\ two' = [two EXCEPT ![k] = [me EXCEPT !.cur = r.cur, !.idx = r.idx,
                                                   !.exc = r.exc, !.status = status,
                                                   !.pc = "done"]]
    /\ UNCHANGED <<pc, cur, idx, trial, call, exc, start, div, mem, made, ntrials, plan>>

NextTwo ==
    \/ Seed
    \/ NewObservers
    \/ \E k \in {1, 2} : \E n_bits \in Widths : \E forced \in BOOLEAN :
          \E value \in ValuesOf(n_bits) : DrawBitsTwo(k, n_bits, forced, value)
    \/ \E k \in {1, 2} : \E c \in Conclusions : ConcludeTestTwo(k, c[1], c[2])

SpecTwo == Init /\ [][NextTwo]_vars

(* a whole trial recorded on the tree ns by one cursor: its draws, then    *)
(* its conclude_test unless the trial has no status                        *)
RunTrial(ns, t) ==
    LET fed == Feed(Result(ns, Root, 0, NoError), t.draws)
    IN  IF fed.exc # NoError \/ t.status = ""
        THEN [nodes |-> fed.nodes, exc |-> fed.exc]
        ELSE LET r == conclude_test(fed.nodes, fed.cur, fed.idx, t.status, NoOrigin)
             IN  [nodes |-> r.nodes, exc |-> r.exc]

(* the trials ts recorded one after the other, up to the first error *)
RECURSIVE RunAll(_, _)
RunAll(r, ts) ==
    IF ts = <<>> \/ r.exc # NoError
    THEN r
    ELSE RunAll(RunTrial(r.nodes, Head(ts)), Tail(ts))

Record(ns, ts) == RunAll([nodes |-> ns, exc |-> NoError], ts)

(* what cursor k was fed *)
TrialOf(k) == [draws |-> two[k].draws, status |-> two[k].status]

BothDone == two[1].pc = "done" /\ two[2].pc = "done"

(* the two trials can be recorded one after the other in either order *)
SeqOK ==
    /\ Record(start, <<TrialOf(1), TrialOf(2)>>).exc = NoError
    /\ Record(start, <<TrialOf(2), TrialOf(1)>>).exc = NoError

(* C17: two cursors alive at once are safe only while neither has its node *)
(* split below its index by the other: when two trials that can be         *)
(* recorded in either order are fed through two such cursors and no cursor *)
(* went stale, no call fails and the tree is the one of the sequential     *)
(* recording; a cursor that went stale can fail (C17_Witness).             *)
C17_FailsOnlyWhenStale ==
    (BothDone /\ SeqOK /\ ~two[1].stale /\ ~two[2].stale)
        => /\ two[1].exc = NoError
           /\ two[2].exc = NoError
           /\ nodes = Record(start, <<TrialOf(1), TrialOf(2)>>).nodes
           /\ nodes = Record(start, <<TrialOf(2), TrialOf(1)>>).nodes

(* two trials that can be recorded in either order, and an interleaving of *)
(* their calls in which a call of the stale cursor fails                   *)
C17_Witness ==
    /\ BothDone
    /\ SeqOK
    /\ two[1].status # ""
    /\ two[2].status # ""
    /\ \E k \in {1, 2} : two[k].stale /\ two[k].exc # NoError /\ two[Other(k)].exc = NoError

(* ------------------- whole trials in every order ----------------------- *)

(* the arguments of one draw_bits call *)
Draws == UNION {{<<n_bits, value>> : value \in ValuesOf(n_bits)} : n_bits \in Widths}

(* a trial: the draws fed to one cursor and the status it concludes with *)
Trials ==
    {[draws |-> d, status |-> st] :
        d \in UNION {[1..n -> Draws] : n \in 0..MaxDraws},
        st \in {c[1] : c \in Conclusions}}

(* one more trial recorded by a new cursor: new_observer, its draw_bits    *)
(* calls and its conclude_test; nothing is recorded after an error         *)
RecordTrial(t) ==
    /\ pc = "idle"
    /\ exc = NoError
    /\ t \notin plan
    /\ Cardinality(plan) < MaxTrials
    /\ LET r == RunTrial(nodes, t)
       IN  /\ nodes' = r.nodes
           /\ exc' = r.exc
    /\ plan' = plan \cup {t}
    /\ UNCHANGED <<pc, cur, idx, trial, call, start, div, mem, made, ntrials, two>>

NextOrder == \E t \in Trials : RecordTrial(t)

SpecOrder == Init /\ [][NextOrder]_vars

(* the orders in which the trials of plan can be recorded *)
Orders == {f \in [1..Cardinality(plan) -> plan] :
              \A i, j \in 1..Cardinality(plan) : i # j => f[i] # f[j]}

(* C20: if the trials recorded so far on a fresh tree can be recorded in   *)
(* one order without error, they were recorded without error, and every    *)
(* order records them without error and yields the tree they yielded.      *)
C20_OrderIndependence ==
    (\E f \in Orders : Record(FreshTree, f).exc = NoError)
        => /\ exc = NoError
           /\ \A f \in Orders :
                 /\ Record(FreshTree, f).exc = NoError
                 /\ Record(FreshTree, f).nodes = nodes

C20_Witness ==
    /\ Cardinality(plan) = 3
    /\ exc = NoError
    /\ Cardinality(DOMAIN nodes) = 5
    /\ \E t \in plan : t.status = OVERRUN

====
